---- MODULE Spec2Model ----
(***************************************************************************)
(* Model of the GAE / VGAE lifecycle wrappers of OpenNE                    *)
(* (src/src/openne/models/gae.py, src/src/openne/models/vgae.py).          *)
(*                                                                         *)
(* Tensors are not computed numerically.  A forward pass is the symbolic   *)
(* value it depends on: the encoder's weights (the number of gradient      *)
(* updates applied to the Xavier initialisation), the dropout mask that    *)
(* was drawn and the shape of the result.  Scalars that the code computes  *)
(* by one division (pos_weight, norm) are kept as the exact quotient       *)
(* <<num, den>>; den = 0 is the IEEE result of dividing by zero (inf when  *)
(* num # 0, nan when num = 0).  Optional attributes are sequences of       *)
(* length 0 (attribute not set) or 1 (attribute set).                      *)
(***************************************************************************)
EXTENDS Integers, Sequences, FiniteSets, TLC

\* ------------------------------------------------------------------ bounds
MaxN == 2
MaxSteps == 2
NMasks == 2
MaxGiven == 2
MaxForward == 2
MaxChecks == 2

\* ------------------------------------------------------- program constants
\* Hyperparameter values are in units of 1/Scale (0.01 is 100, 1e-4 is 1).
Scale == 10000
DefaultOutputDim == 16
DefaultHidden == 32
GaeBuildLr == 100
GaeBuildEpochs == 200
BuildWeightDecay == 1
BuildEarlyStopping == 100
GaeBuildClfRatio == 5000
VgaeBuildLr == 100
VgaeBuildEpochs == 300

NoValue == <<>>
Some(x) == <<x>>
Get(v) == v[1]

\* ------------------------------------------------------------- arithmetic
RECURSIVE GCD(_, _)
GCD(a, b) == IF b = 0 THEN a ELSE GCD(b, a % b)

Abs(x) == IF x < 0 THEN -x ELSE x
Sign(x) == IF x < 0 THEN -1 ELSE IF x = 0 THEN 0 ELSE 1

\* The quotient a / b with b # 0, in lowest terms with a positive denominator.
Quot(a, b) ==
    LET d == GCD(Abs(a), Abs(b))
    IN  <<(Sign(b) * a) \div d, Abs(b) \div d>>

\* a / b where b is a numpy scalar: division by zero yields inf or nan (with a
\* RuntimeWarning), never an exception.
NumpyDiv(a, b) == IF b = 0 THEN <<Sign(a), 0>> ELSE Quot(a, b)

IsFinite(q) == q[2] # 0

\* ----------------------------------------------------------------- graphs
\* A graph: n nodes 1..n in the order g.nodes() yields them, look_up_dict
\* (node to row), an undirected edge set (self-loops allowed), one edge
\* weight, a feature matrix of fdim columns, and a list of labels per node.
NodePairs(n) == {p \in (1..n) \X (1..n) : p[1] <= p[2]}

EdgeWeights == {1, 2}

FeatureDims == {4}

Labelings(n) ==
    { [i \in 1..n |-> <<"a">>],
      [i \in 1..n |-> IF i = 1 THEN <<"b", "a">> ELSE <<"c", "b">>] }

\* The graphs build is given number their nodes in iteration order.
Graphs ==
    UNION { [n : {n}, edges : SUBSET NodePairs(n), weight : EdgeWeights,
             fdim : FeatureDims, labels : Labelings(n),
             look_up : {[i \in 1..n |-> i]}] : n \in 1..MaxN }

\* nx.adjacency_matrix(g): the weighted adjacency of g as it is.
NxAdjacency(g) ==
    [i \in 1..g.n |-> [j \in 1..g.n |->
        IF <<i, j>> \in g.edges \/ <<j, i>> \in g.edges THEN g.weight ELSE 0]]

\* graph.adjmat(weighted=False, directed=False, sparse=True): the 0/1
\* symmetric adjacency.
Adjmat(g) ==
    [i \in 1..g.n |-> [j \in 1..g.n |->
        IF <<i, j>> \in g.edges \/ <<j, i>> \in g.edges THEN 1 ELSE 0]]

Eye(n) == [i \in 1..n |-> [j \in 1..n |-> IF i = j THEN 1 ELSE 0]]

MatAdd(a, b, n) == [i \in 1..n |-> [j \in 1..n |-> a[i][j] + b[i][j]]]

RECURSIVE SumTo(_, _)
SumTo(f, k) == IF k = 0 THEN 0 ELSE f[k] + SumTo(f, k - 1)

\* adj.sum()
MatSum(a, n) == SumTo([i \in 1..n |-> SumTo(a[i], n)], n)

\* ------------------------------------------------------------ preprocessing
\* preprocess_graph(adj) when max_degree == 0, chebyshev_polynomials(adj, k)
\* otherwise: the list of propagation operators (k + 1 of them), by name.
Support(md) ==
    IF md = 0 THEN <<"renormalized_adjacency">>
    ELSE [k \in 1..(md + 1) |-> "chebyshev"]

\* Variant of AdjLabel that forgets the identity.
AdjLabelWithoutSelfLoops(g) == Adjmat(g)

\* build_label, first loop: each label not seen before gets the next column,
\* over the nodes in order and each node's labels in order.
RECURSIVE LabelDict(_, _, _, _)
LabelDict(g, node, pos, dict) ==
    IF node > g.n THEN dict
    ELSE IF pos > Len(g.labels[node]) THEN LabelDict(g, node + 1, 1, dict)
    ELSE LET l == g.labels[node][pos]
         IN  LabelDict(g, node, pos + 1,
                       IF l \in DOMAIN dict THEN dict
                       ELSE dict @@ (l :> Cardinality(DOMAIN dict)))

\* Variant of LabelMatrix that takes the node's position for its row.
LabelMatrixByNodeOrder(g, dict) ==
    [i \in 1..g.n |-> [c \in 0..(Cardinality(DOMAIN dict) - 1) |->
        IF \E p \in 1..Len(g.labels[i]) : dict[g.labels[i][p]] = c THEN 1 ELSE 0]]

\* build_label, second loop: the zero matrix N x label_id with a 1 at
\* (look_up[node], label_dict[label]) for every label of every node.
LabelMatrix(g, dict) ==
    [r \in 1..g.n |-> [c \in 0..(Cardinality(DOMAIN dict) - 1) |->
        IF \E node \in 1..g.n :
              /\ g.look_up[node] = r
              /\ \E p \in 1..Len(g.labels[node]) : dict[g.labels[node][p]] = c
        THEN 1 ELSE 0]]

\* The adjacency label registered by preprocess_data.
AdjLabel(g) == MatAdd(Adjmat(g), Eye(g.n), g.n)

\* Variant of AdjSum that sums the adjacency after self-loops were added.
AdjSumWithSelfLoops(g) == MatSum(MatAdd(NxAdjacency(g), Eye(g.n), g.n), g.n)

\* adj.sum() of the matrix the class-imbalance weights are computed from.
AdjSum(g) == MatSum(NxAdjacency(g), g.n)

\* float(n * n - adj.sum()) / adj.sum(): adj.sum() is a numpy scalar.
PosWeight(g) == NumpyDiv(g.n * g.n - AdjSum(g), AdjSum(g))

\* n * n / float((n * n - adj.sum()) * 2): a Python int by a Python float,
\* which raises ZeroDivisionError when the divisor is 0.0.
NormDivisor(g) == (g.n * g.n - AdjSum(g)) * 2

Norm(g) == Quot(g.n * g.n, NormDivisor(g))

\* preprocess_data(graph): the attributes it has set when it returns or raises.
PreprocessData(k, g, md) ==
    LET raised == NormDivisor(g) = 0
    IN  [ features   |-> Some([n |-> g.n, dim |-> g.fdim]),
          n_nodes    |-> IF k = "VGAE" THEN Some(g.n) ELSE NoValue,
          label_dict |-> Some(LabelDict(g, 1, 1, <<>>)),
          labels     |-> Some(LabelMatrix(g, LabelDict(g, 1, 1, <<>>))),
          adj_label  |-> Some(AdjLabel(g)),
          pos_weight |-> Some(PosWeight(g)),
          norm       |-> IF raised THEN NoValue ELSE Some(Norm(g)),
          support    |-> IF raised THEN NoValue ELSE Some(Support(md)),
          error      |-> IF raised THEN "ZeroDivisionError" ELSE "none" ]

\* ------------------------------------------------------------------ layers
\* GraphConvolution.__init__(self, in_features, out_features, dropout=0.,
\* act=F.relu), the class both model files define at module level: the call's
\* positional arguments pos and keyword arguments kw are bound as Python binds
\* them.  A parameter given both ways, or too many positional arguments, is a
\* TypeError.
GCParams == <<"in_features", "out_features", "dropout", "act">>

GCBound(pos, kw, i) ==
    IF i <= Len(pos) THEN pos[i]
    ELSE IF GCParams[i] \in DOMAIN kw THEN kw[GCParams[i]]
    ELSE IF GCParams[i] = "dropout" THEN 0 ELSE "relu"

GraphConvolution(pos, kw) ==
    IF \/ Len(pos) > Len(GCParams)
       \/ \E i \in 1..Len(pos) : GCParams[i] \in DOMAIN kw
       \/ \E i \in 1..2 : i > Len(pos) /\ GCParams[i] \notin DOMAIN kw
    THEN [error |-> "TypeError", value |-> NoValue]
    ELSE [error |-> "none",
          value |-> Some([ in_features  |-> GCBound(pos, kw, 1),
                           out_features |-> GCBound(pos, kw, 2),
                           dropout      |-> GCBound(pos, kw, 3),
                           act          |-> GCBound(pos, kw, 4) ])]

\* The constructor calls GAEModel.__init__ makes, in order.
GAELayerCalls(dims, dropout) ==
    [i \in 1..(Len(dims) - 1) |->
        GraphConvolution(<<dims[i], dims[i + 1], dropout>>,
                         [act |-> IF i < Len(dims) - 1 THEN "relu" ELSE "identity"])]

\* The positional arguments of the constructor calls VGAEModel.__init__
\* makes, in order: the trunk over dimensions[i-1], dimensions[i], then gcm and
\* gcv over dimensions[1], dimensions[2] (0-based).
VGAELayerArgs(dims, adj, dropout) ==
    [i \in 1..(Len(dims) - 2) |-> <<dims[i], dims[i + 1], <<adj>>, dropout>>]
    \o << <<dims[2], dims[3], <<adj>>, dropout>>,
          <<dims[2], dims[3], <<adj>>, dropout>> >>

\* Those constructor calls: act=F.relu for the trunk, the identity for gcm
\* and gcv.
VGAELayerCalls(dims, adj, dropout) ==
    LET args == VGAELayerArgs(dims, adj, dropout)
    IN  [i \in 1..Len(args) |->
            GraphConvolution(args[i],
                [act |-> IF i <= Len(dims) - 2 THEN "relu" ELSE "identity"])]

\* GAEModel(dimensions, adj, dropout) / VGAEModel(dimensions, adj, dropout): a
\* fresh encoder in training mode (nn.Module's default), Xavier-initialised
\* weights to which no update has been applied, no gradient yet.
NewEncoder(k, dims, adj, dropout) ==
    LET calls == IF k = "GAE" THEN GAELayerCalls(dims, dropout)
                 ELSE VGAELayerCalls(dims, adj, dropout)
    IN  IF \E i \in 1..Len(calls) : calls[i].error # "none"
        THEN [error |-> "TypeError", value |-> NoValue]
        ELSE [error |-> "none",
              value |-> Some([ layers   |-> [i \in 1..Len(calls) |-> Get(calls[i].value)],
                               adj      |-> adj,
                               training |-> TRUE,
                               weights  |-> [updates |-> 0, finite |-> TRUE],
                               grad     |-> NoValue ])]

\* torch.optim.Adam(self.model.parameters(), lr=self.lr): no step taken, no
\* moment accumulated.
NewOptimizer(lr) == [lr |-> lr, step |-> 0, moments |-> NoValue]

\* ------------------------------------------------------------------- state
VARIABLES
    kind,         \* "GAE" or "VGAE": the wrapper's class
    hiddens,      \* self.hiddens
    output_dim,   \* self.output_dim
    max_degree,   \* self.max_degree
    graph,        \* the graph build was given
    hp,           \* lr, epochs, dropout, ... as build stored them
    features,     \* self.features (its shape)
    n_nodes,      \* self.n_nodes (VGAE)
    labels,       \* self.labels
    label_dict,   \* self.label_dict
    adj_label,    \* self.adj_label
    pos_weight,   \* self.pos_weight
    norm,         \* self.norm
    support,      \* self.support
    dimensions,   \* self.dimensions
    model,        \* self.model: the encoder
    optimizer,    \* self.optimizer
    embeddings,   \* self.embeddings
    debug_info,   \* self.debug_info
    trainCalls,   \* train_model calls made since build was called
    last,         \* the last call: its name, what it raised, the steps it took, what it returned
    checked,      \* what the last check_train_parameters call was given and returned
    sampled,      \* the reparameterize calls made on one (mu, logvar): mode, noise, result
    typed,        \* the check_graphtype calls made: graph type, what was raised
    labelled      \* what the last build_label call was given and left in labels, label_dict

vars == <<kind, hiddens, output_dim, max_degree, graph, hp, features, n_nodes,
          labels, label_dict, adj_label, pos_weight, norm, support, dimensions, model, optimizer,
          embeddings, debug_info, trainCalls, last, checked, sampled, typed, labelled>>

ctor == <<kind, hiddens, output_dim, max_degree>>
staged == <<graph, hp, features, n_nodes, labels, label_dict, adj_label, pos_weight, norm, support, dimensions>>
statics == <<sampled, typed, labelled>>

Kinds == {"GAE", "VGAE"}
\* The constructor arguments tried: the defaults, and two hidden layers with
\* a Chebyshev degree of 1.
ConstructorArgs ==
    { [hiddens |-> <<DefaultHidden>>, max_degree |-> 0],
      [hiddens |-> <<DefaultHidden, 8>>, max_degree |-> 1] }
DropoutRates == {0, 5000}
Masks == 1..NMasks

Call(op, err, trace, output, loss) ==
    [op |-> op, error |-> err, trace |-> trace, output |-> output, loss |-> loss]

\* GAE(output_dim=16, hiddens=None, max_degree=0, **kwargs) /
\* VGAE(...): nothing is built; ModelWithEmbeddings starts without embeddings.
Init ==
    /\ kind \in Kinds
    /\ \E c \in ConstructorArgs : hiddens = c.hiddens /\ max_degree = c.max_degree
    /\ output_dim = DefaultOutputDim
    /\ graph = NoValue
    /\ hp = NoValue
    /\ features = NoValue
    /\ n_nodes = NoValue
    /\ labels = NoValue
    /\ label_dict = NoValue
    /\ adj_label = NoValue
    /\ pos_weight = NoValue
    /\ norm = NoValue
    /\ support = NoValue
    /\ dimensions = NoValue
    /\ model = NoValue
    /\ optimizer = NoValue
    /\ embeddings = NoValue
    /\ debug_info = NoValue
    /\ trainCalls = 0
    /\ last = Call("__init__", "none", <<>>, NoValue, NoValue)
    /\ checked = NoValue
    /\ sampled = NoValue
    /\ typed = <<>>
    /\ labelled = NoValue

\* -------------------------------------------------------------------- build
\* The keyword arguments build stores; GAE stores clf_ratio, VGAE does not.
BuildParams(k, dropout) ==
    IF k = "GAE"
    THEN [lr |-> GaeBuildLr, epochs |-> GaeBuildEpochs, dropout |-> dropout,
          weight_decay |-> BuildWeightDecay, early_stopping |-> BuildEarlyStopping,
          clf_ratio |-> Some(GaeBuildClfRatio)]
    ELSE [lr |-> VgaeBuildLr, epochs |-> VgaeBuildEpochs, dropout |-> dropout,
          weight_decay |-> BuildWeightDecay, early_stopping |-> BuildEarlyStopping,
          clf_ratio |-> NoValue]

\* self.dimensions = [input_dim] + self.hiddens + [self.output_dim]
Dimensions(input_dim, hid, out) == <<input_dim>> \o hid \o <<out>>

\* build(graph, dropout=...): the one-time construction; the callers build a
\* wrapper once.
Build(g, dropout) ==
    LET params == BuildParams(kind, dropout)
        pre    == PreprocessData(kind, g, max_degree)
        dims   == Dimensions(g.fdim, hiddens, output_dim)
        enc    == NewEncoder(kind, dims, Get(pre.support)[1], params.dropout)
    IN  /\ graph = NoValue
        /\ graph' = Some(g)
        /\ hp' = Some(params)
        /\ features' = pre.features
        /\ n_nodes' = pre.n_nodes
        /\ labels' = pre.labels
        /\ label_dict' = pre.label_dict
        /\ adj_label' = pre.adj_label
        /\ pos_weight' = pre.pos_weight
        /\ norm' = pre.norm
        /\ support' = pre.support
        /\ IF pre.error # "none"
           THEN /\ last' = Call("build", pre.error, <<>>, NoValue, NoValue)
                /\ UNCHANGED <<dimensions, model, optimizer>>
           ELSE /\ dimensions' = Some(dims)
                /\ IF enc.error # "none"
                   THEN /\ last' = Call("build", enc.error, <<>>, NoValue, NoValue)
                        /\ UNCHANGED <<model, optimizer>>
                   ELSE /\ model' = enc.value
                        /\ optimizer' = Some(NewOptimizer(params.lr))
                        /\ last' = Call("build", "none", <<>>, NoValue, NoValue)
        /\ UNCHANGED <<ctor, embeddings, debug_info, trainCalls, checked, statics>>

\* ------------------------------------------------------------- forward pass
\* F.dropout(input, self.dropout, self.training): the mask m that was drawn
\* takes effect only in training mode with a positive rate; 0 is no mask.
Dropout(rate, training, m) == IF training /\ rate > 0 THEN m ELSE 0

\* GraphConvolution.forward(self, input, adj) called with nargs arguments.
LayerCallOk(nargs) == nargs = 2

\* self.model(self.features): GAEModel.forward calls layer(output, self.adj),
\* VGAEModel.encode calls layer(hidden1).  The result is the value it depends
\* on: the weights, the dropout mask, and its shape N x dimensions[-1].
Forward(k, enc, feats, m) ==
    IF ~LayerCallOk(IF k = "GAE" THEN 2 ELSE 1)
    THEN [error |-> "TypeError", value |-> NoValue]
    ELSE [error |-> "none",
          value |-> Some([ weights |-> enc.weights,
                           mask    |-> Dropout(enc.layers[1].dropout, enc.training, m),
                           shape   |-> <<feats.n, enc.layers[Len(enc.layers)].out_features>> ])]

\* self.loss(output, adj_label, pos_weight, norm): norm times the weighted
\* cross-entropy; it is finite exactly when the weights and pos_weight are
\* (with pos_weight = inf the zero entries of the label give inf * 0 = nan).
Loss(output, pw, nrm) ==
    [finite |-> output.weights.finite /\ IsFinite(pw) /\ IsFinite(nrm)]

\* loss.backward(): the gradient of that loss at those weights and that mask.
Backward(output, loss) == [mask |-> output.mask, finite |-> loss.finite]

\* self.optimizer.step(): Adam folds the gradient into its moments and
\* updates every weight once.
OptimizerStep(opt, grad) ==
    [opt EXCEPT !.step = @ + 1, !.moments = Some([finite |-> grad.finite])]

ApplyUpdate(weights, grad) ==
    [updates |-> weights.updates + 1, finite |-> weights.finite /\ grad.finite]

\* ---------------------------------------------------------------- evaluate
\* Variant of TakesStep that ignores the train argument.
TakesStepAlways(train) == TRUE

\* `if train:` guards loss.backward() and self.optimizer.step().
TakesStep(train) == train

\* evaluate(train): what the call leaves in self.model and self.optimizer, the
\* steps it took in order, and what it returned or raised.  m is the dropout
\* mask the forward pass draws.
Evaluate(train, m) ==
    IF optimizer = NoValue \/ model = NoValue
    THEN [model |-> model, optimizer |-> optimizer,
          call |-> Call("evaluate", "AttributeError", <<>>, NoValue, NoValue)]
    ELSE
    LET zeroed == [Get(model) EXCEPT !.grad = NoValue]
        moded  == [zeroed EXCEPT !.training = train]
        fwd    == Forward(kind, moded, Get(features), m)
        output == Get(fwd.value)
        loss   == Loss(output, Get(pos_weight), Get(norm))
        grad   == Backward(output, loss)
        stepped == [moded EXCEPT !.grad = Some(grad),
                                 !.weights = ApplyUpdate(@, grad)]
        head   == <<"zero_grad", IF train THEN "train_mode" ELSE "eval_mode">>
    IN  IF fwd.error # "none"
        THEN [model |-> Some(moded), optimizer |-> optimizer,
              call |-> Call("evaluate", fwd.error, head, NoValue, NoValue)]
        ELSE IF TakesStep(train)
        THEN [model |-> Some(stepped),
              optimizer |-> Some(OptimizerStep(Get(optimizer), grad)),
              call |-> Call("evaluate", "none",
                            head \o <<"forward", "loss", "backward", "step">>,
                            Some(output), Some(loss))]
        ELSE [model |-> Some(moded), optimizer |-> optimizer,
              call |-> Call("evaluate", "none", head \o <<"forward", "loss">>,
                            Some(output), Some(loss))]

\* train_model(graph): one evaluate() with its default train=True, then the
\* loss formatted into debug_info, and the output returned.
TrainModel(m) ==
    LET r == Evaluate(TRUE, m)
    IN  /\ trainCalls < MaxSteps
        /\ trainCalls' = IF graph = NoValue THEN trainCalls ELSE trainCalls + 1
        /\ model' = r.model
        /\ optimizer' = r.optimizer
        /\ debug_info' = IF r.call.error = "none"
                         THEN Some([train_loss |-> Get(r.call.loss)])
                         ELSE debug_info
        /\ last' = [r.call EXCEPT !.op = "train_model"]
        /\ UNCHANGED <<ctor, staged, embeddings, checked, statics>>

\* evaluate(train=False), as a caller's validation pass makes it.
EvaluateOnly(m) ==
    LET r == Evaluate(FALSE, m)
    IN  /\ model' = r.model
        /\ optimizer' = r.optimizer
        /\ last' = r.call
        /\ UNCHANGED <<ctor, staged, embeddings, debug_info, trainCalls, checked, statics>>

\* Variant of GetEmbeddings that stores an empty matrix instead of raising.
GetEmbeddingsOrEmpty(m) ==
    LET fwd == Forward(kind, Get(model), Get(features), m)
    IN  /\ IF model = NoValue \/ fwd.error # "none"
           THEN embeddings' = Some([weights |-> [updates |-> 0, finite |-> TRUE],
                                    mask |-> 0, shape |-> <<0, 0>>])
           ELSE embeddings' = fwd.value
        /\ last' = Call("_get_embeddings", "none", <<"forward">>, NoValue, NoValue)
        /\ UNCHANGED <<ctor, staged, model, optimizer, debug_info, trainCalls, checked, statics>>

\* _get_embeddings(graph): self.model(self.features) in whatever mode the
\* encoder is in, detached and stored (GAE: the output; VGAE: mu).
GetEmbeddings(m) ==
    LET fwd == Forward(kind, Get(model), Get(features), m)
    IN  /\ IF model = NoValue
           THEN /\ last' = Call("_get_embeddings", "AttributeError", <<>>, NoValue, NoValue)
                /\ UNCHANGED embeddings
           ELSE IF fwd.error # "none"
           THEN /\ last' = Call("_get_embeddings", fwd.error, <<>>, NoValue, NoValue)
                /\ UNCHANGED embeddings
           ELSE /\ embeddings' = fwd.value
                /\ last' = Call("_get_embeddings", "none", <<"forward">>, NoValue, NoValue)
        /\ UNCHANGED <<ctor, staged, model, optimizer, debug_info, trainCalls, checked, statics>>

Next ==
    \/ /\ graph = NoValue
       /\ \E g \in Graphs, d \in DropoutRates : Build(g, d)
    \/ \E m \in Masks : TrainModel(m)
    \/ \E m \in Masks : EvaluateOnly(m)
    \/ \E m \in Masks : GetEmbeddings(m)

Spec == Init /\ [][Next]_vars

\* -------------------------------------------------- check_train_parameters
\* The defaults check_train_parameters hands to check_existance.
TrainDefaults(k) ==
    IF k = "GAE"
    THEN [lr |-> 100, epochs |-> 200 * Scale, dropout |-> 0, weight_decay |-> 1,
          early_stopping |-> 100 * Scale, clf_ratio |-> 5000,
          hiddens |-> <<DefaultHidden>>, max_degree |-> 0]
    ELSE [lr |-> 1000, epochs |-> 300 * Scale, dropout |-> 0, weight_decay |-> 1,
          early_stopping |-> 100 * Scale, clf_ratio |-> 8000,
          hiddens |-> <<DefaultHidden>>, max_degree |-> 0]

\* The (low, high) tuples check_train_parameters hands to check_range; a high
\* end that is not set is np.inf.
TrainRanges ==
    [lr             |-> [lo |-> 0, hi |-> NoValue],
     epochs         |-> [lo |-> 0, hi |-> NoValue],
     dropout        |-> [lo |-> 0, hi |-> Some(Scale)],
     weight_decay   |-> [lo |-> 0, hi |-> Some(Scale)],
     early_stopping |-> [lo |-> 0, hi |-> NoValue],
     clf_ratio      |-> [lo |-> 0, hi |-> Some(Scale)],
     max_degree     |-> [lo |-> 0, hi |-> NoValue]]

\* check_existance(kwargs, defaults): every missing key gets its default.
CheckExistance(kwargs, defaults) ==
    [k \in DOMAIN kwargs \cup DOMAIN defaults |->
        IF k \in DOMAIN kwargs THEN kwargs[k] ELSE defaults[k]]

\* Whether v lies in the interval a (low, high) tuple stands for.  The tuple
\* carries no bracket: one reading, ends included or ends excluded (strict),
\* serves every key.
InRange(v, r, strict) ==
    IF strict
    THEN v > r.lo /\ (r.hi = NoValue \/ v < Get(r.hi))
    ELSE v >= r.lo /\ (r.hi = NoValue \/ v <= Get(r.hi))

\* check_range(kwargs, ranges): the keys whose value is out of range.
CheckRange(kwargs, ranges, strict) ==
    {k \in DOMAIN ranges : ~InRange(kwargs[k], ranges[k], strict)}

\* check_train_parameters(**kwargs): fill the defaults, check the ranges,
\* return kwargs.
CheckTrainParameters(kwargs, strict) ==
    LET filled == CheckExistance(kwargs, TrainDefaults(kind))
        bad    == CheckRange(filled, TrainRanges, strict)
    IN  /\ checked' = Some([ given    |-> kwargs,
                             error    |-> IF bad = {} THEN "none" ELSE "ConfigurationError",
                             listed   |-> bad,
                             returned |-> IF bad = {} THEN Some(filled) ELSE NoValue ])
        /\ UNCHANGED <<ctor, staged, model, optimizer, embeddings, debug_info,
                       trainCalls, last, statics>>

RangedKeys == DOMAIN TrainRanges
TestValues == {-1000, 0, 100, Scale, 2 * Scale}

\* The keyword arguments a caller passes: at most MaxGiven ranged
\* hyperparameters, with or without hiddens.
GivenKwargs ==
    UNION { UNION { { v, [k \in K \cup {"hiddens"} |->
                            IF k = "hiddens" THEN <<8>> ELSE v[k]] }
                    : v \in [K -> TestValues] }
            : K \in {K \in SUBSET RangedKeys : Cardinality(K) <= MaxGiven} }

\* One call per behaviour: the classmethod keeps no state between calls.
NextParams ==
    /\ checked = NoValue
    /\ \E kw \in GivenKwargs, strict \in BOOLEAN : CheckTrainParameters(kw, strict)

SpecParams == Init /\ [][NextParams]_vars

\* ------------------------------------------------------------ reparameterize
\* A latent tensor is its two entries.  mu and the samples are in thousandths,
\* logvar and the noise in whole units.
MuEntries == {-500, 500}
LogvarEntries == {-1, 1}
EpsEntries == {-1, 1}

\* torch.exp(x) for the logvar entries tried, in thousandths.
TorchExp(x) == CASE x = -1 -> 368 [] x = 0 -> 1000 [] x = 1 -> 2718

\* Variant of Reparameterize that samples in every mode.
ReparameterizeSampling(training, mu, logvar, eps) ==
    [i \in DOMAIN mu |-> eps[i] * TorchExp(logvar[i]) + mu[i]]

\* reparameterize(mu, logvar): in training mode eps * exp(logvar) + mu with
\* eps the noise torch.randn_like draws, otherwise mu itself.
Reparameterize(training, mu, logvar, eps) ==
    IF training
    THEN [i \in DOMAIN mu |-> eps[i] * TorchExp(logvar[i]) + mu[i]]
    ELSE mu

\* VGAEModel.forward, after encode returned (mu, logvar): z is
\* reparameterize(mu, logvar) in the mode the module is in.  Every call of one
\* behaviour is on the same mu and logvar (same parameters, same input); eps
\* is what torch.randn_like would return at that call.
ReparameterizeCall(training, mu, logvar, eps) ==
    LET calls == IF sampled = NoValue THEN <<>> ELSE Get(sampled).calls
    IN  /\ sampled # NoValue => (Get(sampled).mu = mu /\ Get(sampled).logvar = logvar)
        /\ Len(calls) < MaxForward
        /\ sampled' = Some([ mu     |-> mu,
                             logvar |-> logvar,
                             calls  |-> Append(calls,
                                 [ training |-> training,
                                   eps      |-> eps,
                                   z        |-> Reparameterize(training, mu, logvar, eps),
                                   mu       |-> mu ]) ])
        /\ UNCHANGED <<ctor, staged, model, optimizer, embeddings, debug_info,
                       trainCalls, last, checked, typed, labelled>>

NextReparam ==
    \E training \in BOOLEAN, mu \in MuEntries \X MuEntries,
       logvar \in LogvarEntries \X LogvarEntries, eps \in EpsEntries \X EpsEntries :
        ReparameterizeCall(training, mu, logvar, eps)

SpecReparam == Init /\ [][NextReparam]_vars

\* ---------------------------------------------------------- check_graphtype
\* A graph type (a dataset class) by what its classmethods answer.
GraphTypes == [attributed : BOOLEAN, weighted : BOOLEAN, directed : BOOLEAN]

\* graphtype.attributed(): whether the graphs of this type carry node features.
Attributed(gt) == gt.attributed

\* Variant of GraphtypeError in which only GAE rejects.
GraphtypeErrorOfGAE(k, gt) ==
    IF k = "GAE" /\ ~Attributed(gt) THEN "TypeError" ELSE "none"

\* `if not graphtype.attributed(): raise TypeError(...)`, the same two lines
\* in GAE and VGAE.
GraphtypeError(k, gt) ==
    IF ~Attributed(gt) THEN "TypeError" ELSE "none"

\* check_graphtype(graphtype): a classmethod; it reads the graph type and
\* returns None or raises.
CheckGraphtype(gt) ==
    /\ Len(typed) < MaxChecks
    /\ typed' = Append(typed, [graphtype |-> gt, error |-> GraphtypeError(kind, gt)])
    /\ UNCHANGED <<ctor, staged, model, optimizer, embeddings, debug_info,
                   trainCalls, last, checked, sampled, labelled>>

NextGraphtype == \E gt \in GraphTypes : CheckGraphtype(gt)

SpecGraphtype == Init /\ [][NextGraphtype]_vars

\* ------------------------------------------------------------- build_label
\* The label lists a node may carry: none, one, several, one repeated.
LabelLists ==
    { <<>>, <<"a">>, <<"b">>, <<"a", "b">>, <<"b", "a">>, <<"c", "a">>, <<"b", "b">> }

\* look_up_dict: a numbering of the n nodes by the rows 1..n.
LookUps(n) == {f \in [1..n -> 1..n] : \A i, j \in 1..n : f[i] = f[j] => i = j}

\* What build_label reads of a graph: the nodes in iteration order, each
\* node's label list, and look_up_dict.
LabelGraphs ==
    UNION { [n : {n}, labels : [1..n -> LabelLists], look_up : LookUps(n)]
            : n \in 1..MaxN }

\* build_label(graph): one pass numbers the labels, the matrix of zeros is
\* registered, label_dict stored, and a second pass sets the ones.
BuildLabel(g) ==
    LET dict == LabelDict(g, 1, 1, <<>>)
    IN  /\ labelled = NoValue
        /\ label_dict' = Some(dict)
        /\ labels' = Some(LabelMatrix(g, dict))
        /\ labelled' = Some(g)
        /\ UNCHANGED <<ctor, graph, hp, features, n_nodes, adj_label, pos_weight, norm,
                       support, dimensions, model, optimizer, embeddings, debug_info,
                       trainCalls, last, checked, sampled, typed>>

NextLabel == \E g \in LabelGraphs : BuildLabel(g)

SpecLabel == Init /\ [][NextLabel]_vars

\* ====================================================================
\* Properties
\* ====================================================================
\* adj.sum() counted from the edge set: every edge between two nodes is two
\* entries of the adjacency, every self-loop is one.
EdgeEntries(g) ==
    g.weight * (2 * Cardinality({e \in g.edges : e[1] # e[2]})
                + Cardinality({e \in g.edges : e[1] = e[2]}))

\* The graph has an edge and its adjacency is not full: both divisions of
\* preprocess_data are defined.
WeightsDefined(g) == EdgeEntries(g) > 0 /\ EdgeEntries(g) # g.n * g.n

BuildCompleted == model # NoValue /\ optimizer # NoValue

TrainingStep == <<"zero_grad", "train_mode", "forward", "loss", "backward", "step">>

\* C1 (as claimed): once build has been given a graph whose weights are
\* defined, every train_model call performs one training step in the order
\* zero_grad, forward in training mode, loss, backward, one optimizer update,
\* and returns the forward pass's output; after k calls k updates have been
\* applied.  This is for GAE and VGAE alike.
C1_EveryTrainCallIsOneStep ==
    (graph # NoValue /\ WeightsDefined(Get(graph)) /\ trainCalls > 0) =>
        /\ optimizer # NoValue
        /\ Get(optimizer).step = trainCalls
        /\ last.op = "train_model" =>
              /\ last.error = "none"
              /\ last.trace = TrainingStep
              /\ last.output # NoValue
              /\ Get(last.output).weights.updates = trainCalls - 1

\* What C1 says, on a wrapper that build completed (GAE): every train_model
\* call that returned took the six steps in order, returned the output of its
\* forward pass in training mode, and after k calls k updates are applied.
C1_OneStepOnBuiltWrapper ==
    BuildCompleted =>
        /\ Get(optimizer).step = trainCalls
        /\ Get(model).weights.updates = trainCalls
        /\ last.op = "train_model" =>
              /\ last.error = "none"
              /\ last.trace = TrainingStep
              /\ Get(model).training
              /\ Get(last.output).weights.updates = trainCalls - 1
              /\ Get(model).grad = Some([mask |-> Get(last.output).mask,
                                         finite |-> Get(last.loss).finite])
              /\ debug_info = Some([train_loss |-> Get(last.loss)])

\* C2 (as claimed): _get_embeddings runs the encoder in evaluation mode, so
\* that dropout is the identity whatever the configured rate: the embeddings
\* it stores carry no dropout mask and are a function of the weights alone.
C2_EmbeddingsInEvalMode ==
    (last.op = "_get_embeddings" /\ last.error = "none") =>
        Get(embeddings).mask = 0

\* C3 (as claimed): build on an attributed graph with valid hyperparameters
\* completes without error and leaves the dimension list
\* [input_dim] + hiddens + [output_dim], an encoder over it with the operator
\* support[0], and an optimizer, for GAE and VGAE alike.
C3_BuildCompletes ==
    (graph # NoValue /\ WeightsDefined(Get(graph))) =>
        /\ last.op = "build" => last.error = "none"
        /\ features # NoValue /\ adj_label # NoValue /\ support # NoValue
        /\ dimensions = Some(<<Get(graph).fdim>> \o hiddens \o <<output_dim>>)
        /\ BuildCompleted
        /\ Get(model).adj = Get(support)[1]
        /\ Get(model).layers[1].in_features = Get(graph).fdim
        /\ Get(model).layers[Len(Get(model).layers)].out_features = output_dim

\* The ranges the specification gives each hyperparameter.
InSpecRange(k, v) ==
    CASE k \in {"lr", "epochs", "early_stopping"} -> v > 0
      [] k = "dropout" -> v >= 0 /\ v <= Scale
      [] k \in {"weight_decay", "clf_ratio"} -> v > 0 /\ v < Scale
      [] k = "max_degree" -> v >= 0

\* C4 (as claimed): check_train_parameters fills every default and fails
\* exactly when some value is outside lr, epochs, early_stopping in (0, inf),
\* dropout in [0, 1], weight_decay, clf_ratio in (0, 1), max_degree in
\* [0, inf); the error lists every violated constraint; otherwise the
\* completed dictionary is returned.
C4_RangesAsSpecified ==
    checked # NoValue =>
        LET c       == Get(checked)
            filled  == [k \in DOMAIN c.given \cup DOMAIN TrainDefaults(kind) |->
                           IF k \in DOMAIN c.given THEN c.given[k]
                           ELSE TrainDefaults(kind)[k]]
            outside == {k \in RangedKeys : ~InSpecRange(k, filled[k])}
        IN  IF outside = {}
            THEN c.error = "none" /\ c.returned = Some(filled)
            ELSE c.error # "none" /\ c.listed = outside

\* C5 (as claimed): a graph with zero edges makes preprocess_data fail with a
\* DegenerateGraphError: pos_weight and norm are never left infinite or NaN,
\* and build does not reach the construction of the encoder.
C5_ZeroEdgeGraphRejected ==
    (graph # NoValue /\ EdgeEntries(Get(graph)) = 0) =>
        /\ last.op = "build" => last.error = "DegenerateGraphError"
        /\ pos_weight # NoValue => IsFinite(Get(pos_weight))
        /\ norm # NoValue => IsFinite(Get(norm))
        /\ model = NoValue

\* C6 (as claimed): a training step never completes normally, returning an
\* output and updating debug_info, with a loss that is NaN or infinite.
C6_NonFiniteLossRaises ==
    (last.op = "train_model" /\ last.error = "none") =>
        /\ Get(last.loss).finite
        /\ Get(debug_info).train_loss.finite

\* C7: train_model and _get_embeddings never succeed on a wrapper on which
\* build has not completed, embeddings exist only on a built wrapper, and a
\* built wrapper stays built: the lifecycle only moves forward.
C7_NoSuccessBeforeBuild ==
    /\ [](embeddings # NoValue => BuildCompleted)
    /\ []((last.op \in {"train_model", "_get_embeddings"} /\ last.error = "none")
              => BuildCompleted)
    /\ [][ /\ (~BuildCompleted /\ last'.op \in {"train_model", "_get_embeddings"})
                 => (last'.error # "none" /\ embeddings' = embeddings)
           /\ BuildCompleted => BuildCompleted'
           /\ embeddings # NoValue => embeddings' # NoValue ]_vars

\* train_model and _get_embeddings were called on a wrapper that was never
\* built, and raised.
C7_Witness ==
    /\ graph = NoValue
    /\ last.op \in {"train_model", "_get_embeddings"}
    /\ last.error = "AttributeError"

WeightsOf(mv) == IF mv = NoValue THEN NoValue ELSE Some(Get(mv).weights)

\* C8: evaluate(train=False) and _get_embeddings leave every encoder weight
\* and the optimizer's state as they were; only train_model changes them.
C8_OnlyTrainModelMutates ==
    [][ (last'.op \in {"evaluate", "_get_embeddings"})
            => (WeightsOf(model') = WeightsOf(model) /\ optimizer' = optimizer) ]_vars

\* evaluate(train=False) returned on a wrapper that has been trained.
C8_Witness ==
    /\ last.op = "evaluate"
    /\ last.error = "none"
    /\ Get(model).weights.updates > 0
    /\ Get(optimizer).step = Get(model).weights.updates

\* C9: the adjacency label is A + I for the 0/1 undirected adjacency A of
\* the graph: 1 is added on every diagonal entry, every other entry is A's,
\* and no entry is rescaled.
C9_AdjLabelIsAPlusI ==
    adj_label # NoValue =>
        LET g == Get(graph)
            A(i, j) == IF <<i, j>> \in g.edges \/ <<j, i>> \in g.edges THEN 1 ELSE 0
        IN  /\ DOMAIN Get(adj_label) = 1..g.n
            /\ \A i, j \in 1..g.n :
                  Get(adj_label)[i][j] = A(i, j) + (IF i = j THEN 1 ELSE 0)

\* Preprocessing ran on a weighted graph with an edge and a self-loop.
C9_Witness ==
    /\ adj_label # NoValue
    /\ Get(graph).n >= 2
    /\ Get(graph).weight > 1
    /\ \E e \in Get(graph).edges : e[1] # e[2]
    /\ \E e \in Get(graph).edges : e[1] = e[2]

\* The two identities of the class-imbalance weights, for the sum S of the
\* original adjacency, in exact arithmetic.
WeightIdentities(g) ==
    LET S == EdgeEntries(g)
        N == g.n
    IN  /\ pos_weight # NoValue /\ IsFinite(Get(pos_weight))
        /\ Get(pos_weight)[1] * S = (N * N - S) * Get(pos_weight)[2]
        /\ norm # NoValue /\ IsFinite(Get(norm))
        /\ Get(norm)[1] * 2 * (N * N - S) = N * N * Get(norm)[2]

\* C10 (as claimed): for every graph with at least one edge, pos_weight and
\* norm are computed from the sum S of the original adjacency and satisfy
\* pos_weight * S = N*N - S and norm * 2 * (N*N - S) = N*N.
C10_IdentitiesForEveryGraphWithAnEdge ==
    (graph # NoValue /\ EdgeEntries(Get(graph)) > 0) => WeightIdentities(Get(graph))

\* C10 (amended): the same, for every graph with at least one edge whose
\* adjacency sum S is not N*N.
C10_IdentitiesWhenDefined ==
    (graph # NoValue /\ WeightsDefined(Get(graph))) => WeightIdentities(Get(graph))

\* Preprocessing ran on a graph with an edge, a self-loop free node pair
\* missing, and weights that are not whole numbers.
C10_Witness ==
    /\ graph # NoValue
    /\ WeightsDefined(Get(graph))
    /\ Get(graph).n >= 2
    /\ Get(pos_weight)[2] > 1
    /\ Get(norm)[2] > 1

C12_RejectsExactlyUnattributed ==
    /\ [](\A i \in 1..Len(typed) :
             /\ ~typed[i].graphtype.attributed => typed[i].error = "TypeError"
             /\ typed[i].graphtype.attributed => typed[i].error = "none")
    /\ [][ typed' # typed =>
               UNCHANGED <<ctor, staged, model, optimizer, embeddings, debug_info,
                           trainCalls, last>> ]_vars

\* VGAE's check_graphtype rejected a graph type without features and then
\* accepted one with features that differs from it in nothing else.
C12_Witness ==
    /\ kind = "VGAE"
    /\ Len(typed) >= 2
    /\ typed[1].error = "TypeError"
    /\ typed[2].error = "none"
    /\ typed[1].graphtype.weighted = typed[2].graphtype.weighted
    /\ typed[1].graphtype.directed = typed[2].graphtype.directed

\* C13 (as claimed): for any non-empty hiddens, with L = len(hiddens) + 1, the
\* VGAE encoder is built as L - 1 ReLU trunk layers followed by the two heads
\* gcm and gcv, every trunk layer takes the width the layer before it gives,
\* and both heads map the last hidden dimension to output_dim.
C13_HeadsMapLastHiddenToOutputDim ==
    (kind = "VGAE" /\ dimensions # NoValue) =>
        LET dims == Get(dimensions)
            L    == Len(hiddens) + 1
            args == VGAELayerArgs(dims, Get(support)[1], Get(hp).dropout)
        IN  /\ Len(args) = L + 1
            /\ args[1][1] = Get(features).dim
            /\ \A i \in 2..(L - 1) : args[i][1] = args[i - 1][2]
            /\ \A h \in {L, L + 1} :
                  /\ args[h][1] = hiddens[Len(hiddens)]
                  /\ args[h][1] = args[L - 1][2]
                  /\ args[h][2] = output_dim

\* The labels occurring on any node of g.
LabelsOn(g) == UNION { {g.labels[i][p] : p \in 1..Len(g.labels[i])} : i \in 1..g.n }

\* The place of a label's first occurrence in the single pass: nodes in
\* iteration order, each node's list in order.
FirstSeen(g, l) ==
    LET places == UNION { { <<i, p>> : p \in {q \in 1..Len(g.labels[i]) :
                                                  g.labels[i][q] = l} }
                          : i \in 1..g.n }
    IN  CHOOSE x \in places :
            \A y \in places : x[1] < y[1] \/ (x[1] = y[1] /\ x[2] <= y[2])

Before(x, y) == x[1] < y[1] \/ (x[1] = y[1] /\ x[2] < y[2])

\* C14: build_label's dictionary is a bijection between the distinct labels
\* occurring on any node and the columns 0..L-1, a label first seen earlier
\* in node iteration order has the smaller column, and the N x L matrix has
\* a 1 at (look_up[node], column(label)) exactly when the label is in that
\* node's label set, and 0 elsewhere.
C14_FirstSeenColumns ==
    labelled # NoValue =>
        LET g    == Get(labelled)
            dict == Get(label_dict)
            mat  == Get(labels)
            L    == Cardinality(LabelsOn(g))
        IN  /\ DOMAIN dict = LabelsOn(g)
            /\ {dict[l] : l \in DOMAIN dict} = 0..(L - 1)
            /\ \A l1, l2 \in DOMAIN dict : dict[l1] = dict[l2] => l1 = l2
            /\ \A l1, l2 \in DOMAIN dict :
                  Before(FirstSeen(g, l1), FirstSeen(g, l2)) => dict[l1] < dict[l2]
            /\ DOMAIN mat = 1..g.n
            /\ \A node \in 1..g.n :
                  /\ DOMAIN mat[g.look_up[node]] = 0..(L - 1)
                  /\ \A l \in DOMAIN dict :
                        mat[g.look_up[node]][dict[l]] =
                            IF \E p \in 1..Len(g.labels[node]) : g.labels[node][p] = l
                            THEN 1 ELSE 0

\* build_label ran on a graph whose look_up_dict is not the iteration order,
\* with three distinct labels, one of them on two nodes and not first in the
\* list of the node where it is first seen.
C14_Witness ==
    /\ labelled # NoValue
    /\ Get(labelled).n >= 2
    /\ Get(labelled).look_up[1] # 1
    /\ Cardinality(DOMAIN Get(label_dict)) = 3
    /\ Get(labelled).labels[1] = <<"c", "a">>
    /\ Get(labelled).labels[2] = <<"a", "b">>
    /\ Get(label_dict)["a"] = 1

====
